---- MODULE Spec2Model ----
(***************************************************************************)
(* Model of server/audio/sampler.py: the Sampler that mixes the sounds     *)
(* registered by play(), with its chunk producer (Mixer) thread, its       *)
(* play_thread (DeviceWriter) and the caller threads of play()/remove().   *)
(***************************************************************************)
EXTENDS Integers, Sequences, FiniteSets, TLC

(* ------------------------------ bounds --------------------------------- *)

\* calls each caller thread makes at most
MaxCalls == 2
\* chunks held by the longest sound of the general specification
MaxChunks == 2

(* ----------------------------- constants ------------------------------- *)

\* samplerate of the sampler (default of the constructor)
sr == 22050
\* a mutant of QueueSize: the queue takes two chunks
QueueSizeTwo == 1 + 1

\* capacity of self.chunks, Queue(1)
QueueSize == 1

Threads == {"t1", "t2"}
Sounds == {"A", "B", "C"}

\* sound.sr of each sound: C has another samplerate than the sampler
SoundSr(s) == IF s = "C" THEN 2 * sr ELSE sr

VARIABLES
    data,            \* data[s]: the finite chunk sequence behind s.chunks
    pos,             \* pos[s]: chunks the iterator s.chunks has yielded
    playing,         \* playing[s]: sound.playing
    sounds,          \* self.sounds, a list
    is_done,         \* self.is_done, an Event
    lock,            \* TRUE while the Mixer holds self.chunk_available
    chunks,          \* self.chunks, a Queue(1)
    running,         \* self.running
    pc,              \* pc[t]: where caller thread t is
    arg,             \* arg[t]: the sound of t's current or last call
    calls,           \* calls[t]: calls t has made
    mpc,             \* where the chunks_producer thread is
    playing_sounds,  \* next_chunks' local playing_sounds
    cycle_chunks,    \* next_chunks' local chunks
    idx,             \* position of the for loop in playing_sounds
    mixed,           \* value returned by next_chunks, not yet put
    wpc,             \* where play_thread (run) is
    pos0,            \* pos when the current cycle took its snapshot
    restarted,       \* sounds re-registered by play() and not pulled since
    produced,        \* every value next_chunks has returned, in order
    written          \* every value passed to stream.write, in order

vars == <<data, pos, playing, sounds, is_done, lock, chunks, running, pc, arg,
          calls, mpc, playing_sounds, cycle_chunks, idx, mixed, wpc, pos0,
          restarted, produced, written>>

callerVars == <<pc, arg, calls>>
mixerVars == <<mpc, playing_sounds, cycle_chunks, idx, mixed, pos0>>

(* ------------------------------ helpers -------------------------------- *)

Range(seq) == {seq[i] : i \in 1..Len(seq)}

RECURSIVE SumSeq(_)
SumSeq(seq) == IF seq = <<>> THEN 0 ELSE Head(seq) + SumSeq(Tail(seq))

RECURSIVE GCD(_, _)
GCD(a, b) == IF b = 0 THEN a ELSE GCD(b, a % b)

\* the fraction n/d in lowest terms, as <<numerator, denominator>>
Fraction(n, d) == LET g == GCD(n, d) IN <<n \div g, d \div g>>

\* a mutant of Mean: the chunks summed, not averaged
MeanAsSum(cs) == Fraction(SumSeq(cs), 1)

\* numpy.mean(chunks, axis=0) of chunks of one constant sample each
Mean(cs) == Fraction(SumSeq(cs), Len(cs))

\* list.remove(x): seq without the first occurrence of x (x is in seq)
ListRemove(seq, x) ==
    LET i == CHOOSE j \in 1..Len(seq) :
                 seq[j] = x /\ \A k \in 1..(j - 1) : seq[k] # x
    IN  SubSeq(seq, 1, i - 1) \o SubSeq(seq, i + 1, Len(seq))

\* a mutant of SrMismatch: the samplerate is never checked
SrNeverChecked(s) == FALSE

\* self.sr != sound.sr
SrMismatch(s) == sr # SoundSr(s)

\* a mutant of HasNext: the last chunk of a sound is never yielded
HasNextButLast(s) == pos[s] + 1 < Len(data[s])

\* next(s.chunks) yields a chunk (it raises StopIteration otherwise)
HasNext(s) == pos[s] < Len(data[s])

\* [s for s in self.sounds if s.playing]
PlayingSounds == SelectSeq(sounds, LAMBDA s : playing[s])

\* a mutant of Notified: the notify wakes nobody
NotifyLost(m) == m

\* self.chunk_available.notify(): the one waiter, the Mixer, is woken
Notified(m) == IF m = "waiting" THEN "notified" ELSE m

\* a caller thread that is in no call
Ready(t) == pc[t] \in {"idle", "returned", "removed", "raised_sr", "raised_remove"}

(* ------------------------------- Init ---------------------------------- *)

Ramp(n) == [i \in 1..n |-> i]

InitSampler ==
    /\ pos = [s \in Sounds |-> 0]
    /\ playing = [s \in Sounds |-> FALSE]
    /\ sounds = <<>>
    /\ is_done = FALSE
    /\ lock = FALSE
    /\ chunks = <<>>
    /\ running = FALSE
    /\ pc = [t \in Threads |-> "idle"]
    /\ arg = [t \in Threads |-> "A"]
    /\ calls = [t \in Threads |-> 0]
    /\ mpc = "off"
    /\ playing_sounds = <<>>
    /\ cycle_chunks = <<>>
    /\ idx = 1
    /\ mixed = <<0, 1>>
    /\ wpc = "start"
    /\ pos0 = [s \in Sounds |-> 0]
    /\ restarted = {}
    /\ produced = <<>>
    /\ written = <<>>

Init ==
    /\ data = [A |-> Ramp(MaxChunks), B |-> <<10>>, C |-> <<5>>]
    /\ InitSampler

(* ------------------------- caller threads ------------------------------ *)

\* play(), lines 56-58: clear is_done, then check the samplerate
PlayBegin(t, s) ==
    /\ Ready(t)
    /\ calls[t] < MaxCalls
    /\ is_done' = FALSE
    /\ arg' = [arg EXCEPT ![t] = s]
    /\ calls' = [calls EXCEPT ![t] = @ + 1]
    /\ pc' = [pc EXCEPT ![t] = IF SrMismatch(s) THEN "raised_sr" ELSE "check_in"]
    /\ UNCHANGED <<data, pos, playing, sounds, lock, chunks, running, mixerVars,
                   wpc, restarted, produced, written>>

\* play(), line 60: sound in self.sounds, read without the lock
PlayCheckIn(t) ==
    /\ pc[t] = "check_in"
    /\ pc' = [pc EXCEPT ![t] = IF arg[t] \in Range(sounds) THEN "remove" ELSE "append"]
    /\ UNCHANGED <<data, pos, playing, sounds, is_done, lock, chunks, running,
                   arg, calls, mixerVars, wpc, restarted, produced, written>>

\* play(), line 61: self.remove(sound) under the lock; list.remove raises
\* ValueError when the sound is no longer in the list
PlayRemove(t) ==
    /\ pc[t] = "remove"
    /\ ~lock
    /\ playing' = [playing EXCEPT ![arg[t]] = FALSE]
    /\ IF arg[t] \in Range(sounds)
       THEN /\ sounds' = ListRemove(sounds, arg[t])
            /\ pc' = [pc EXCEPT ![t] = "readd"]
       ELSE /\ pc' = [pc EXCEPT ![t] = "raised_remove"]
            /\ UNCHANGED sounds
    /\ UNCHANGED <<data, pos, is_done, lock, chunks, running, arg, calls,
                   mixerVars, wpc, restarted, produced, written>>

\* play(), lines 63-67: append, playing = True, notify, under the lock
\* ("readd": line 63 reached through the remove of line 61)
PlayAppend(t) ==
    /\ pc[t] \in {"append", "readd"}
    /\ ~lock
    /\ restarted' = IF pc[t] = "readd" /\ pos[arg[t]] > 0
                     THEN restarted \cup {arg[t]} ELSE restarted
    /\ sounds' = Append(sounds, arg[t])
    /\ playing' = [playing EXCEPT ![arg[t]] = TRUE]
    /\ mpc' = Notified(mpc)
    /\ pc' = [pc EXCEPT ![t] = "wait"]
    /\ UNCHANGED <<data, pos, is_done, lock, chunks, running, arg, calls,
                   playing_sounds, cycle_chunks, idx, mixed, wpc, pos0,
                   produced, written>>

\* play(), line 68: self.is_done.wait() returns once the event is set
PlayWait(t) ==
    /\ pc[t] = "wait"
    /\ is_done
    /\ pc' = [pc EXCEPT ![t] = "returned"]
    /\ UNCHANGED <<data, pos, playing, sounds, is_done, lock, chunks, running,
                   arg, calls, mixerVars, wpc, restarted, produced, written>>

\* remove(sound) called by a thread on a sound that is registered
Remove(t, s) ==
    /\ Ready(t)
    /\ calls[t] < MaxCalls
    /\ ~lock
    /\ s \in Range(sounds)
    /\ playing' = [playing EXCEPT ![s] = FALSE]
    /\ sounds' = ListRemove(sounds, s)
    /\ arg' = [arg EXCEPT ![t] = s]
    /\ calls' = [calls EXCEPT ![t] = @ + 1]
    /\ pc' = [pc EXCEPT ![t] = "removed"]
    /\ UNCHANGED <<data, pos, is_done, lock, chunks, running, mixerVars, wpc,
                   restarted, produced, written>>

(* ------------------- chunks_producer thread (Mixer) -------------------- *)

\* chunks_producer, line 105: while self.running
MLoop ==
    /\ mpc = "loop"
    /\ mpc' = IF running THEN "acquire" ELSE "exited"
    /\ UNCHANGED <<data, pos, playing, sounds, is_done, lock, chunks, running,
                   callerVars, playing_sounds, cycle_chunks, idx, mixed, wpc,
                   pos0, restarted, produced, written>>

\* next_chunks, lines 80-84: with the lock held (taken at line 80, or taken
\* back when wait() returns at line 96), snapshot the playing sounds
MSnapshot ==
    /\ mpc \in {"acquire", "notified"}
    /\ ~lock
    /\ lock' = TRUE
    /\ playing_sounds' = PlayingSounds
    /\ cycle_chunks' = <<>>
    /\ idx' = 1
    /\ pos0' = pos
    /\ mpc' = "pull"
    /\ UNCHANGED <<data, pos, playing, sounds, is_done, chunks, running,
                   callerVars, mixed, wpc, restarted, produced, written>>

\* next_chunks, lines 85-88: next(s.chunks) of the loop's current sound
MPull ==
    /\ mpc = "pull"
    /\ idx <= Len(playing_sounds)
    /\ LET s == playing_sounds[idx] IN
       IF HasNext(s)
       THEN /\ cycle_chunks' = Append(cycle_chunks, data[s][pos[s] + 1])
            /\ pos' = [pos EXCEPT ![s] = @ + 1]
            /\ idx' = idx + 1
            /\ restarted' = restarted \ {s}
            /\ UNCHANGED mpc
       ELSE /\ mpc' = "stopped"
            /\ UNCHANGED <<cycle_chunks, pos, idx, restarted>>
    /\ UNCHANGED <<data, playing, sounds, is_done, lock, chunks, running,
                   callerVars, playing_sounds, mixed, wpc, pos0, produced,
                   written>>

\* next_chunks, line 89: s.playing = False
MMarkStopped ==
    /\ mpc = "stopped"
    /\ playing' = [playing EXCEPT ![playing_sounds[idx]] = FALSE]
    /\ restarted' = restarted \ {playing_sounds[idx]}
    /\ mpc' = "unregister"
    /\ UNCHANGED <<data, pos, sounds, is_done, lock, chunks, running,
                   callerVars, playing_sounds, cycle_chunks, idx, mixed, wpc,
                   pos0, produced, written>>

\* next_chunks, line 90: self.sounds.remove(s); a ValueError ends the thread
MRemove ==
    /\ mpc = "unregister"
    /\ IF playing_sounds[idx] \in Range(sounds)
       THEN /\ sounds' = ListRemove(sounds, playing_sounds[idx])
            /\ mpc' = "signal"
       ELSE /\ mpc' = "crashed"
            /\ UNCHANGED sounds
    /\ UNCHANGED <<data, pos, playing, is_done, lock, chunks, running,
                   callerVars, playing_sounds, cycle_chunks, idx, mixed, wpc,
                   pos0, restarted, produced, written>>

\* next_chunks, line 91: self.is_done.set(), then the next sound of the loop
MSignal ==
    /\ mpc = "signal"
    /\ is_done' = TRUE
    /\ idx' = idx + 1
    /\ mpc' = "pull"
    /\ UNCHANGED <<data, pos, playing, sounds, lock, chunks, running,
                   callerVars, playing_sounds, cycle_chunks, mixed, wpc, pos0,
                   restarted, produced, written>>

\* next_chunks, lines 93-94 and 98: chunks is not empty, leave the lock and
\* return the mean
MReturn ==
    /\ mpc = "pull"
    /\ idx > Len(playing_sounds)
    /\ cycle_chunks # <<>>
    /\ mixed' = Mean(cycle_chunks)
    /\ produced' = Append(produced, Mean(cycle_chunks))
    /\ lock' = FALSE
    /\ mpc' = "put"
    /\ UNCHANGED <<data, pos, playing, sounds, is_done, chunks, running,
                   callerVars, playing_sounds, cycle_chunks, idx, wpc, pos0,
                   restarted, written>>

\* a mutant of MWait: a cycle without a chunk returns silence and does not wait
MWaitAsSilence ==
    /\ mpc = "pull"
    /\ idx > Len(playing_sounds)
    /\ cycle_chunks = <<>>
    /\ mixed' = <<0, 1>>
    /\ produced' = Append(produced, <<0, 1>>)
    /\ lock' = FALSE
    /\ mpc' = "put"
    /\ UNCHANGED <<data, pos, playing, sounds, is_done, chunks, running,
                   callerVars, playing_sounds, cycle_chunks, idx, wpc, pos0,
                   restarted, written>>

\* next_chunks, line 96: no chunk, self.chunk_available.wait() gives the
\* lock up until a notify
MWait ==
    /\ mpc = "pull"
    /\ idx > Len(playing_sounds)
    /\ cycle_chunks = <<>>
    /\ lock' = FALSE
    /\ mpc' = "waiting"
    /\ UNCHANGED <<data, pos, playing, sounds, is_done, chunks, running,
                   callerVars, playing_sounds, cycle_chunks, idx, mixed, wpc,
                   pos0, restarted, produced, written>>

\* a mutant of MPut: put does not block on a full queue
MPutNoBlock ==
    /\ mpc = "put"
    /\ chunks' = Append(chunks, mixed)
    /\ mpc' = "loop"
    /\ UNCHANGED <<data, pos, playing, sounds, is_done, lock, running,
                   callerVars, playing_sounds, cycle_chunks, idx, mixed, wpc,
                   pos0, restarted, produced, written>>

\* chunks_producer, line 106: self.chunks.put(...) blocks while the queue is full
MPut ==
    /\ mpc = "put"
    /\ Len(chunks) < QueueSize
    /\ chunks' = Append(chunks, mixed)
    /\ mpc' = "loop"
    /\ UNCHANGED <<data, pos, playing, sounds, is_done, lock, running,
                   callerVars, playing_sounds, cycle_chunks, idx, mixed, wpc,
                   pos0, restarted, produced, written>>

(* --------------------- play_thread (DeviceWriter) ---------------------- *)

\* run, lines 102-112: running = True, start chunks_producer, open the stream
RunStart ==
    /\ wpc = "start"
    /\ running' = TRUE
    /\ mpc' = "loop"
    /\ wpc' = "get"
    /\ UNCHANGED <<data, pos, playing, sounds, is_done, lock, chunks,
                   callerVars, playing_sounds, cycle_chunks, idx, mixed, pos0,
                   restarted, produced, written>>

\* a mutant of WGetWrite: the chunk written stays in the queue
WGetWriteKeep ==
    /\ wpc = "get"
    /\ chunks # <<>>
    /\ written' = Append(written, Head(chunks))
    /\ UNCHANGED <<data, pos, playing, sounds, is_done, lock, running, chunks,
                   callerVars, mixerVars, wpc, restarted, produced>>

\* run, line 114: a chunk is there, get it and write it to the stream
WGetWrite ==
    /\ wpc = "get"
    /\ chunks # <<>>
    /\ written' = Append(written, Head(chunks))
    /\ chunks' = Tail(chunks)
    /\ UNCHANGED <<data, pos, playing, sounds, is_done, lock, running,
                   callerVars, mixerVars, wpc, restarted, produced>>

\* a mutant of WTimeout: running is set to False but the loop goes on
WTimeoutKeepsOn ==
    /\ wpc = "get"
    /\ chunks = <<>>
    /\ running' = FALSE
    /\ UNCHANGED <<data, pos, playing, sounds, is_done, lock, chunks, wpc,
                   callerVars, mixerVars, restarted, produced, written>>

\* run, lines 115-116 and 112: get times out on the empty queue, running is
\* set to False, the loop ends and the stream is closed
WTimeout ==
    /\ wpc = "get"
    /\ chunks = <<>>
    /\ running' = FALSE
    /\ wpc' = "closed"
    /\ UNCHANGED <<data, pos, playing, sounds, is_done, lock, chunks,
                   callerVars, mixerVars, restarted, produced, written>>

(* --------------------------- specifications ---------------------------- *)

Mixer ==
    \/ MLoop \/ MSnapshot \/ MPull \/ MMarkStopped \/ MRemove \/ MSignal
    \/ MReturn \/ MWait \/ MPut

Writer == RunStart \/ WGetWrite \/ WTimeout

Caller(t) ==
    \/ \E s \in Sounds : PlayBegin(t, s) \/ Remove(t, s)
    \/ PlayCheckIn(t) \/ PlayRemove(t) \/ PlayAppend(t) \/ PlayWait(t)

Next == (\E t \in Threads : Caller(t)) \/ Mixer \/ Writer

Spec == Init /\ [][Next]_vars

\* every thread that can take a step eventually takes one
FairSpec ==
    /\ Spec
    /\ \A t \in Threads : WF_vars(Caller(t))
    /\ WF_vars(Mixer)
    /\ WF_vars(Writer)

(* ------------------- scenario: one play(A) of 3 chunks ----------------- *)

InitSingle ==
    /\ data = [A |-> <<1, 1, 1>>, B |-> <<>>, C |-> <<>>]
    /\ InitSampler

\* the one call of the scenario
PlayOnce(t, s) == calls[t] = 0 /\ PlayBegin(t, s)

CallerSingle ==
    \/ PlayOnce("t1", "A")
    \/ PlayCheckIn("t1") \/ PlayAppend("t1") \/ PlayWait("t1")

NextSingle == CallerSingle \/ Mixer \/ Writer

FairSingle ==
    /\ InitSingle /\ [][NextSingle]_vars
    /\ WF_vars(CallerSingle)
    /\ WF_vars(Mixer)
    /\ WF_vars(Writer)

(* ---------- scenario: A (5 chunks of 1) and B (2 chunks of 3) ---------- *)

\* both play() calls have registered their sound and wait; the play loop has
\* not started its first cycle
InitAB ==
    /\ data = [A |-> <<1, 1, 1, 1, 1>>, B |-> <<3, 3>>, C |-> <<>>]
    /\ pos = [s \in Sounds |-> 0]
    /\ playing = [s \in Sounds |-> s \in {"A", "B"}]
    /\ sounds = <<"A", "B">>
    /\ is_done = FALSE
    /\ lock = FALSE
    /\ chunks = <<>>
    /\ running = FALSE
    /\ pc = [t \in Threads |-> "wait"]
    /\ arg = [t \in Threads |-> IF t = "t1" THEN "A" ELSE "B"]
    /\ calls = [t \in Threads |-> 1]
    /\ mpc = "off"
    /\ playing_sounds = <<>>
    /\ cycle_chunks = <<>>
    /\ idx = 1
    /\ mixed = <<0, 1>>
    /\ wpc = "start"
    /\ pos0 = [s \in Sounds |-> 0]
    /\ restarted = {}
    /\ produced = <<>>
    /\ written = <<>>

NextAB == (\E t \in Threads : PlayWait(t)) \/ Mixer \/ Writer

SpecAB == InitAB /\ [][NextAB]_vars

(* ------------------------------- claims -------------------------------- *)

IsPrefix(p, q) == Len(p) <= Len(q) /\ SubSeq(q, 1, Len(p)) = p

Count(seq, x) == Cardinality({i \in 1..Len(seq) : seq[i] = x})

Mismatched(s) == SoundSr(s) # sr

\* thread t takes the step
Steps(t) == pc'[t] # pc[t] \/ calls'[t] # calls[t]

\* C1: play(S) returns only in a state where S.playing is false, under every
\* interleaving of the caller threads and the Mixer.
C1_ReturnsOnlyWhenStopped ==
    [][\A t \in Threads :
          (pc[t] = "wait" /\ pc'[t] = "returned") => ~playing[arg[t]]]_vars

\* C2: a caller blocked in play(S) is eventually released once S has left
\* self.sounds, by exhaustion or by remove(S).
C2_ReleasedOnceRemoved ==
    \A t \in Threads :
        (pc[t] = "wait" /\ arg[t] \notin Range(sounds)) ~> (pc[t] # "wait")

\* C3: a single play(A) of a 3-chunk sound, whenever it is called, eventually
\* returns, with A.playing false.
C3_SinglePlayReturns ==
    (pc["t1"] # "idle") ~> (pc["t1"] = "returned" /\ ~playing["A"])

C5_MismatchMutatesNothing ==
    [][\A t \in Threads :
          (calls'[t] # calls[t] /\ pc'[t] = "raised_sr")
              => UNCHANGED <<sounds, playing, is_done, chunks, running>>]_vars

\* sum of the chunks s has yielded since the snapshot of the current cycle
RECURSIVE PulledSum(_, _)
PulledSum(s, i) ==
    IF i <= pos0[s] THEN 0 ELSE data[s][i] + PulledSum(s, i - 1)

RECURSIVE SumOver(_, _)
SumOver(S, f) ==
    IF S = {} THEN 0
    ELSE LET s == CHOOSE x \in S : TRUE IN f[s] + SumOver(S \ {s}, f)

\* C6: the chunk a cycle returns is the mean of exactly the chunks pulled in
\* that cycle, each from a sound of the cycle's snapshot that yielded one.
C6_MixedIsMean ==
    mpc = "put" =>
        LET total == SumOver(Sounds, [s \in Sounds |-> PulledSum(s, pos[s])])
            n == SumOver(Sounds, [s \in Sounds |-> pos[s] - pos0[s]])
        IN  /\ n > 0
            /\ mixed = Fraction(total, n)
            /\ \A s \in Sounds :
                   pos[s] - pos0[s] <= Count(playing_sounds, s)

\* a cycle has returned the mix of a chunk of A and a chunk of B
C6_Witness ==
    /\ mpc = "put"
    /\ pos["A"] > pos0["A"]
    /\ pos["B"] > pos0["B"]
    /\ mixed = <<11, 2>>

Expected == <<(<<2, 1>>), (<<2, 1>>), (<<1, 1>>), (<<1, 1>>), (<<1, 1>>)>>

\* C7: with A (5 chunks of 1) and B (2 chunks of 3) registered before the
\* first cycle, the mixed chunks are 2, 2, 1, 1, 1: one per cycle, none
\* skipped, none extra, nothing from an exhausted sound.
C7_TwoSoundsSequence ==
    /\ IsPrefix(produced, Expected)
    /\ ~lock => /\ pos["A"] = Len(produced)
                /\ pos["B"] = IF Len(produced) < 2 THEN Len(produced) ELSE 2
    /\ mpc = "waiting" => produced = Expected

\* both sounds are exhausted and the five chunks have reached the stream
C7_Witness ==
    /\ produced = Expected
    /\ written = Expected
    /\ ~playing["A"] /\ ~playing["B"]
    /\ sounds = <<>>

\* C8: the chunk the Mixer pulls from a sound that play() re-registered
\* while it was active, k > 0 chunks in, is its first chunk.
C8_ReplayRestarts ==
    (mpc = "pull" /\ idx <= Len(playing_sounds)) =>
        LET s == playing_sounds[idx]
        IN  (s \in restarted /\ HasNext(s)) => pos[s] = 0

\* C9: play() on a registered sound removes it and adds it again without an
\* error, whatever the Mixer does in between, and leaves it registered and
\* playing.
C9_ReplayRegisters ==
    [][\A t \in Threads :
          /\ (pc[t] = "remove" /\ Steps(t)) => pc'[t] = "readd"
          /\ (pc[t] = "readd" /\ Steps(t)) =>
                 (arg[t] \in Range(sounds') /\ playing'[arg[t]])]_vars

\* C10: no sound is twice in self.sounds.
C10_NoDuplicate ==
    \A i, j \in 1..Len(sounds) : sounds[i] = sounds[j] => i = j

\* C11: seen outside the critical sections of the lock, every sound of
\* self.sounds has playing = TRUE.
C11_MembersArePlaying ==
    ~lock => \A s \in Range(sounds) : playing[s]

\* a sound of self.sounds is playing
SomeActive == \E s \in Range(sounds) : playing[s]

\* C12: with no active sound the Mixer produces no chunk: a cycle that starts
\* without one snapshots nothing, a cycle that pulled nothing ends in the
\* wait of the condition variable, every chunk returned holds a chunk pulled
\* from a sound of the snapshot, and only a play() that registers a sound
\* ends the wait.
C12_NoChunkWithoutActive ==
    [][/\ (mpc \in {"acquire", "notified"} /\ mpc' = "pull" /\ ~SomeActive)
              => playing_sounds' = <<>>
       /\ (mpc = "pull" /\ idx > Len(playing_sounds) /\ cycle_chunks = <<>>
              /\ mpc' # mpc) => (mpc' = "waiting" /\ produced' = produced)
       /\ (produced' # produced)
              => \E s \in Range(playing_sounds) : pos[s] > pos0[s]
       /\ (mpc = "waiting" /\ mpc' # "waiting")
              => \E t \in Threads :
                     /\ pc[t] \in {"append", "readd"} /\ pc'[t] = "wait"
                     /\ arg[t] \in Range(sounds') /\ playing'[arg[t]]]_vars

\* the last sound is gone after chunks were produced, and the Mixer waits
\* while the subsystem runs
C12_Witness ==
    /\ mpc = "waiting"
    /\ sounds = <<>>
    /\ produced # <<>>
    /\ running

\* C13: the queue never holds more than one chunk, and a put only completes
\* on the empty queue: while it holds a chunk the producer stays in put until
\* the DeviceWriter has taken that chunk.
C13_QueueHoldsOne ==
    [][/\ Len(chunks) <= 1 /\ Len(chunks') <= 1
       /\ (mpc = "put" /\ mpc' # "put") => (chunks = <<>> /\ chunks' = <<mixed>>)
       /\ (mpc = "put" /\ chunks # <<>> /\ chunks' # chunks)
              => (chunks' = <<>> /\ written' = Append(written, Head(chunks)))]_vars

\* the producer holds the next chunk in put while the queue is full
C13_Witness ==
    /\ mpc = "put"
    /\ Len(chunks) = 1
    /\ wpc = "get"

\* the chunk next_chunks has returned and chunks_producer has not yet put
InHand == IF mpc = "put" THEN <<mixed>> ELSE <<>>

\* C14: the chunks written to the stream are the chunks the Mixer produced,
\* in the order of production, none twice, none out of order: written is a
\* prefix of produced, and what is left is in the queue or in put.
C14_WrittenInOrder ==
    /\ IsPrefix(written, produced)
    /\ produced = written \o chunks \o InHand

\* two different chunks were produced and written, in that order
C14_Witness ==
    /\ Len(written) >= 2
    /\ written[1] # written[2]
    /\ written = produced

\* C15: running turns false only by the get timing out on the empty queue,
\* and then the DeviceWriter leaves its loop and closes the stream; from
\* then on it stays closed, running stays false and no chunk is written.
C15_TimeoutStopsWriter ==
    [][/\ (running /\ ~running')
              => (wpc = "get" /\ chunks = <<>> /\ wpc' = "closed")
       /\ (wpc = "get" /\ chunks = <<>> /\ wpc' # wpc)
              => (~running' /\ wpc' = "closed" /\ written' = written)
       /\ wpc = "closed"
              => (wpc' = "closed" /\ ~running' /\ written' = written)
       /\ (~running /\ wpc # "start") => written' = written]_vars

\* the stream is closed after chunks were written, and a chunk put after
\* the timeout stays in the queue
C15_Witness ==
    /\ wpc = "closed"
    /\ ~running
    /\ written # <<>>
    /\ chunks # <<>>

(* ------------- scenario: next(s.chunks) may raise an error ------------- *)

\* next_chunks, lines 86-88: next(s.chunks) raises an exception that is not
\* StopIteration; no handler catches it, it leaves the with block of line 80
\* (the lock is released) and chunks_producer, and the thread ends
MFault ==
    /\ mpc = "pull"
    /\ idx <= Len(playing_sounds)
    /\ lock' = FALSE
    /\ mpc' = "faulted"
    /\ UNCHANGED <<data, pos, playing, sounds, is_done, chunks, running,
                   callerVars, playing_sounds, cycle_chunks, idx, mixed, wpc,
                   pos0, restarted, produced, written>>

NextFault == Next \/ MFault

SpecFault == Init /\ [][NextFault]_vars

\* C16: a fault of one sound's next chunk, other than the end of its
\* sequence, leaves the Mixer thread running: the thread is never ended by it.
C16_FaultIsolated ==
    mpc # "faulted"

\* the steps of a play() call that has begun
InCall(t) == PlayCheckIn(t) \/ PlayRemove(t) \/ PlayAppend(t) \/ PlayWait(t)

\* the two threads of the sampler take their steps and a call that has begun
\* goes on; whether a thread makes a new call is left open
FairLoops ==
    /\ Spec
    /\ \A t \in Threads : WF_vars(InCall(t))
    /\ WF_vars(Mixer)
    /\ WF_vars(Writer)

\* C17: once starvation has made running false, both loops end: the
\* DeviceWriter's loop and the chunks_producer thread.
C17_BothLoopsExit ==
    (wpc = "closed" /\ ~running) ~> (wpc = "closed" /\ mpc = "exited")

\* chunks next_chunks has returned and the DeviceWriter has not yet taken
Ahead == Len(produced) - Len(written)

\* C18 as claimed: at most one chunk is computed and not yet taken, and the
\* Mixer never computes a chunk while one waits in the queue.
C18_AtMostOneAhead ==
    /\ Ahead <= 1
    /\ lock => chunks = <<>>

\* C18 as amended: at most two chunks are computed and not yet taken, one in
\* the queue and one held by the producer blocked in put; while the Mixer
\* computes a chunk at most one waits.
C18_AtMostTwoAhead ==
    /\ Ahead <= 2
    /\ Ahead = 2 => (mpc = "put" /\ Len(chunks) = 1)
    /\ lock => Ahead <= 1

\* the Mixer has computed a second chunk while the first is still in the queue
C18_Witness ==
    /\ Ahead = 2
    /\ wpc = "get"

\* the Mixer has found s exhausted and is between lines 89 and 91 for it
Exhausting(s) ==
    /\ mpc \in {"unregister", "signal"}
    /\ playing_sounds[idx] = s

\* C19: the Mixer marks an exhausted sound stopped, removes it and sets
\* is_done in one step as seen by the other threads: no thread reads
\* self.sounds while the sound is marked stopped and still registered, or
\* removed with is_done not yet set.
C19_ExhaustionIsAtomic ==
    [][\A t \in Threads :
          (pc[t] = "check_in" /\ pc'[t] # "check_in" /\ Exhausting(arg[t])) =>
              /\ ~(mpc = "unregister" /\ arg[t] \in Range(sounds)
                       /\ ~playing[arg[t]])
              /\ ~(mpc = "signal" /\ arg[t] \notin Range(sounds)
                       /\ ~is_done)]_vars

\* the chunks_producer thread takes its steps and a call that has begun
\* goes on
FairMixer ==
    /\ Spec
    /\ \A t \in Threads : WF_vars(InCall(t))
    /\ WF_vars(Mixer)

\* s is registered, playing and has a chunk left, with the Mixer blocked in
\* wait() or woken from it, and the subsystem running
RegisteredForBlockedMixer(s) ==
    /\ mpc \in {"waiting", "notified"}
    /\ running
    /\ s \in Range(sounds) /\ playing[s] /\ HasNext(s)

\* a cycle has returned a chunk that holds a chunk of s
MixedWith(s) == mpc = "put" /\ pos[s] > pos0[s]

\* C20 as claimed: once play(S) has registered S for the blocked Mixer, the
\* Mixer wakes, snapshots and produces a chunk that holds S's chunk.
C20_RegisteredIsMixed ==
    \A s \in Sounds : RegisteredForBlockedMixer(s) ~> MixedWith(s)

\* the Mixer is woken from wait() or inside a cycle of next_chunks
Cycling == mpc \in {"notified", "pull", "stopped", "unregister", "signal"}

\* C20 as amended: no wakeup is lost (the Mixer never waits while a playing
\* sound is registered), a woken Mixer snapshots again and ends its cycle,
\* and a cycle that ends has pulled a chunk of every sound of its snapshot
\* that had one left, so the chunk it returns holds the chunk of each sound
\* still registered and playing at that snapshot.
C20_NoLostWakeup ==
    /\ [](mpc = "waiting" => ~SomeActive)
    /\ [](\A s \in Range(playing_sounds) :
             (mpc = "pull" /\ idx > Len(playing_sounds)
                  /\ pos0[s] < Len(data[s])) => pos[s] > pos0[s])
    /\ Cycling ~> (mpc \in {"put", "waiting"})

\* a play() has registered a sound with chunks left and woken the Mixer
C20_Witness ==
    /\ mpc = "notified"
    /\ running
    /\ \E s \in Range(sounds) : playing[s] /\ HasNext(s)

====
